---- MODULE Spec2Model ----
(***************************************************************************)
(* craft: apply a template repository on top of a project generated by     *)
(* create-react-app.  The model follows the promise chain of the tool:     *)
(* prerequisite check, generator, scratch directory, git clone, reading    *)
(* the configuration, deletion step, copy step, manifest step (npm         *)
(* install and package.json merge), success step, top-level catch.         *)
(*                                                                         *)
(* Two variants of the tool are in the repository: the one that reads      *)
(* craft.yaml / craft.yml (variant "yaml") and the older one that reads    *)
(* the line-oriented craft.spec (variant "legacy").                        *)
(*                                                                         *)
(* A path is a sequence of tokens: names and separator characters.  The    *)
(* files of a directory tree are sequences of names (one per level).       *)
(***************************************************************************)
EXTENDS Integers, Sequences, FiniteSets, TLC

VARIABLES
    variant,        \* "yaml" or "legacy"
    sep,            \* path.sep of the host
    pc,             \* position in the promise chain
    npx,            \* result of isNPXAvailable()
    craInstalled,   \* whether the create-react-app executable is installed
    obj,            \* the object passed along the chain: tmpdir, spec, cleanup
    tmplConfig,     \* the configuration file of the template snapshot
    configLog,      \* what readConfig / readSpec printed
    tmplFiles,      \* template snapshot: files below obj.tmpdir
    tmplManifest,   \* package.json of the template snapshot
    appFiles,       \* baseline project: files below root
    appManifest,    \* package.json of the baseline project
    delPending,     \* fs.remove calls in flight
    delResult,      \* settled fs.remove calls: file -> "ok" / "err"
    copyPending,    \* fs.copy calls in flight
    copyResult,     \* settled fs.copy calls: file -> "ok" / "err"
    copied,         \* template files the copy step has written into root
    templatePackageJson, \* manifest step: the template manifest as loaded
    appPackageJson, \* manifest step: the baseline manifest as last read
    install,        \* the npm install of the manifest step
    written,        \* the package.json written by the manifest step
    reason,         \* the rejection reason travelling to the top-level catch
    printed,        \* banner / abort messages printed so far
    procs,          \* subprocesses spawned so far, with their exit codes
    cursor          \* entries processed / reconciliations done (function runs)

vars == <<variant, cursor, procs, sep, pc, npx, craInstalled, obj, tmplConfig, configLog, tmplFiles, tmplManifest,
          appFiles, appManifest, delPending, delResult, copyPending,
          copyResult, copied, templatePackageJson, appPackageJson, install,
          written, reason, printed>>

----------------------------------------------------------------------------
(* Bounds *)

\* exit codes of the subprocesses range over 0..MaxExitCode
MaxExitCode == 1
\* deepest nesting of a file in the template snapshot
MaxDepth == 3
MaxEntries == 3
MaxRuns == 2

----------------------------------------------------------------------------
(* Generic helpers *)

\* the empty object {}
EmptyObject == [k \in {} |-> k]

\* obj[key] = value on a plain object
Put(o, key, value) ==
    [k \in (DOMAIN o) \cup {key} |-> IF k = key THEN value ELSE o[k]]

\* Object.assign({}, a, b): the own properties of b win over those of a
ObjectAssign(a, b) ==
    [k \in (DOMAIN a) \cup (DOMAIN b) |-> IF k \in DOMAIN b THEN b[k] ELSE a[k]]

\* delete o[key]
DeleteKey(o, key) == [k \in (DOMAIN o) \ {key} |-> o[k]]

----------------------------------------------------------------------------
(* Paths *)

Separators == {"/", "\\"}

\* value.replace(/\//g, path.sep)
ReplaceSlashes(p, s) ==
    [i \in 1..Len(p) |-> IF p[i] = "/" THEN s ELSE p[i]]

\* path.join of the names of a file below a directory, relative to it
RECURSIVE RelPath(_, _)
RelPath(names, s) ==
    IF Len(names) = 0 THEN <<>>
    ELSE IF Len(names) = 1 THEN names
    ELSE <<names[1], s>> \o RelPath(Tail(names), s)

\* the proper ancestors of a file, the top-level entry included
Ancestors(names) == {SubSeq(names, 1, n) : n \in 1..(Len(names) - 1)}

\* the file or one of its ancestors
IsUnder(names, dir) ==
    /\ Len(dir) <= Len(names)
    /\ SubSeq(names, 1, Len(dir)) = dir

----------------------------------------------------------------------------
(* The Spec: a plain object from path to directive *)

Undefined == "<undefined>"

\* properties every plain object inherits from Object.prototype
ObjectPrototypeKeys ==
    {<<"constructor">>, <<"toString">>, <<"valueOf">>, <<"hasOwnProperty">>}

\* o[key] on a plain object: own property, else inherited, else undefined
GetOwn(o, key) ==
    IF key \in DOMAIN o THEN o[key] ELSE Undefined

Get(o, key) ==
    IF key \in DOMAIN o THEN o[key]
    ELSE IF key \in ObjectPrototypeKeys THEN "<native function>"
    ELSE Undefined

defaultSpec(v) ==
    IF v = "yaml"
    THEN (<<"node_modules">> :> "ignore") @@ (<<"package.json">> :> "merge")
         @@ (<<"package-lock.json">> :> "ignore") @@ (<<"craft.yaml">> :> "ignore")
         @@ (<<"craft.yml">> :> "ignore") @@ (<<".git">> :> "ignore")
    ELSE (<<"node_modules">> :> "ignore") @@ (<<"package.json">> :> "merge")
         @@ (<<"package-lock.json">> :> "ignore") @@ (<<"craft.spec">> :> "ignore")
         @@ (<<".git">> :> "ignore")

directivesWithMerge == {"ignore", "delete", "replace", "merge"}

\* const directives = [ 'ignore', 'delete', 'replace']
directives == {"ignore", "delete", "replace"}

----------------------------------------------------------------------------
(* Structured configuration: craft.yaml / craft.yml *)

\* A loaded YAML document is [load, hasSpec, entries]: load is what
\* yaml.safeLoad did ("throws", or the kind of value it returned), entries
\* are the keys of config.spec in order, each [directive, values] (a single
\* value is a list of one), a value being [scalar, path] (scalar: string,
\* number or boolean; anything else is refused by add).

addKeepsExisting(spec, directive, value, s) ==
    IF value.scalar /\ ReplaceSlashes(value.path, s) \notin DOMAIN spec
    THEN Put(spec, ReplaceSlashes(value.path, s), directive)
    ELSE spec

\* const add = (directive, value) => ...
add(spec, directive, value, s) ==
    IF value.scalar
    THEN Put(spec, ReplaceSlashes(value.path, s), directive)
    ELSE spec

RECURSIVE addAll(_, _, _, _)
addAll(spec, directive, values, s) ==
    IF Len(values) = 0 THEN spec
    ELSE addAll(add(spec, directive, Head(values), s), directive, Tail(values), s)

RECURSIVE addEntries(_, _, _)
addEntries(spec, entries, s) ==
    IF Len(entries) = 0 THEN spec
    ELSE LET e == Head(entries)
             next == IF e.directive \in directives
                     THEN addAll(spec, e.directive, e.values, s)
                     ELSE spec
         IN addEntries(next, Tail(entries), s)

\* normalizeConfig(config = {}): [threw, spec]; config.spec of null throws
normalizeConfig(config, s) ==
    IF config.load = "null"
    THEN [threw |-> TRUE, spec |-> EmptyObject]
    ELSE IF config.load = "object" /\ config.hasSpec
    THEN [threw |-> FALSE, spec |-> addEntries(defaultSpec("yaml"), config.entries, s)]
    ELSE [threw |-> FALSE, spec |-> defaultSpec("yaml")]

\* the file readConfig picks: craft.yaml first, then craft.yml
ConfigFileOf(files) ==
    IF <<"craft.yaml">> \in files THEN "craft.yaml"
    ELSE IF <<"craft.yml">> \in files THEN "craft.yml"
    ELSE "none"

\* readConfig(templateDir): the object handed to Object.assign(obj, ...),
\* as [hasSpec, spec, log]
readConfig(files, cfg, s) ==
    IF ConfigFileOf(files) = "none"
    THEN [hasSpec |-> FALSE, spec |-> EmptyObject, log |-> "none"]
    ELSE IF cfg.io = "error" \/ cfg.load = "throws" \/ normalizeConfig(cfg, s).threw
    THEN [hasSpec |-> FALSE, spec |-> EmptyObject, log |-> "failed"]
    ELSE [hasSpec |-> TRUE, spec |-> normalizeConfig(cfg, s).spec, log |-> "using"]

----------------------------------------------------------------------------
(* Legacy configuration: craft.spec, one "path: directive" per line *)

\* index of the first ":" of the line, 0 when there is none
RECURSIVE ColonIndex(_, _)
ColonIndex(line, i) ==
    IF i > Len(line) THEN 0
    ELSE IF line[i] = ":" THEN i
    ELSE ColonIndex(line, i + 1)

\* [ \t]* : drop the leading blanks
RECURSIVE SkipBlanks(_)
SkipBlanks(toks) ==
    IF Len(toks) > 0 /\ Head(toks) \in {" ", "\t"} THEN SkipBlanks(Tail(toks))
    ELSE toks

\* /^(.*?):[ \t]*(.*)$/.exec(line) as [matched, filePath, directive]
MatchLine(line) ==
    LET c == ColonIndex(line, 1)
    IN IF c = 0
       THEN [matched |-> FALSE, filePath |-> <<>>, directive |-> <<>>]
       ELSE [matched |-> TRUE,
             filePath |-> SubSeq(line, 1, c - 1),
             directive |-> SkipBlanks(SubSeq(line, c + 1, Len(line)))]

\* the body of the forEach over the lines
specLine(spec, line, s) ==
    IF Len(line) > 0 /\ line[1] = "#" THEN spec
    ELSE LET m == MatchLine(line)
         IN IF m.matched /\ Len(m.directive) = 1 /\ m.directive[1] \in directives
            THEN Put(spec, ReplaceSlashes(m.filePath, s), m.directive[1])
            ELSE spec

RECURSIVE specLines(_, _, _)
specLines(spec, lines, s) ==
    IF Len(lines) = 0 THEN spec
    ELSE specLines(specLine(spec, Head(lines), s), Tail(lines), s)

\* readSpec(templateDir) as [hasSpec, spec, log]
readSpec(files, cfg, s) ==
    IF <<"craft.spec">> \notin files
    THEN [hasSpec |-> TRUE, spec |-> defaultSpec("legacy"), log |-> "none"]
    ELSE IF cfg.io = "error"
    THEN [hasSpec |-> TRUE, spec |-> defaultSpec("legacy"), log |-> "failed"]
    ELSE [hasSpec |-> TRUE, spec |-> specLines(defaultSpec("legacy"), cfg.lines, s),
          log |-> "using"]

----------------------------------------------------------------------------
(* The inputs of a run *)

projectName == "my-app"
projectTemplate == "template-url"
tmpdirName == "tmp-dir"

\* a scalar value of the configuration, and one add refuses
V(p) == [scalar |-> TRUE, path |-> p]
NotScalar == [scalar |-> FALSE, path |-> <<>>]
E(d, vals) == [directive |-> d, values |-> vals]

NoConfig ==
    [io |-> "ok", load |-> "undefined", hasSpec |-> FALSE, entries |-> <<>>,
     lines |-> <<>>]

YamlDoc(load, hasSpec, entries) ==
    [io |-> "ok", load |-> load, hasSpec |-> hasSpec, entries |-> entries,
     lines |-> <<>>]

YamlDocs ==
    { [NoConfig EXCEPT !.io = "error"],
      YamlDoc("throws", FALSE, <<>>),
      YamlDoc("null", FALSE, <<>>),
      YamlDoc("undefined", FALSE, <<>>),
      YamlDoc("object", FALSE, <<>>),
      YamlDoc("object", TRUE, <<E("delete", <<V(<<"old", "/", "file.txt">>)>>)>>),
      YamlDoc("object", TRUE, <<E("ignore", <<V(<<"src", "/", "a">>)>>),
                                E("replace", <<V(<<"package.json">>)>>)>>),
      YamlDoc("object", TRUE, <<E("delete", <<V(<<"old">>), V(<<"old", "/", "file.txt">>)>>),
                                E("merge", <<V(<<"a.txt">>)>>),
                                E("ignore", <<NotScalar>>)>>),
      YamlDoc("object", TRUE, <<E("ignore", <<V(<<"a.txt">>)>>),
                                E("replace", <<V(<<"a.txt">>), V(<<"node_modules">>)>>),
                                E("delete", <<V(<<"old", "/">>)>>)>>) }

LegacyDoc(lines) ==
    [io |-> "ok", load |-> "undefined", hasSpec |-> FALSE, entries |-> <<>>,
     lines |-> lines]

LegacyDocs ==
    { [NoConfig EXCEPT !.io = "error"],
      LegacyDoc(<<>>),
      LegacyDoc(<< <<"#", " ", "old", ":", " ", "delete">>,
                   <<"old", "/", "file.txt", ":", " ", "delete">>, <<>> >>),
      LegacyDoc(<< <<"src", "/", "a", ":", "ignore">>,
                   <<"package.json", ":", "\t", " ", "replace">>,
                   <<"no colon">> >>),
      LegacyDoc(<< <<"old", ":", " ", "delete">>,
                   <<"old", "/", "file.txt", ":", " ", "delete">>,
                   <<"a.txt", ":", " ", "merge">>,
                   <<"src", ":", " ", "ignore", " ">> >>),
      LegacyDoc(<< <<"a.txt", ":", " ", "ignore">>,
                   <<"a.txt", ":", " ", "replace">>,
                   <<"node_modules", ":", " ", "replace">>,
                   <<"old", "/", ":", " ", "delete">> >>) }

\* the names of the configuration files the variant looks for
ConfigNames(v) ==
    IF v = "yaml" THEN {<<"craft.yaml">>, <<"craft.yml">>} ELSE {<<"craft.spec">>}

ConfigDocs(v) == IF v = "yaml" THEN YamlDocs ELSE LegacyDocs

\* directory trees a template repository may hold (a clone always has .git)
RawTrees ==
    { {<<".git">>, <<"a.txt">>, <<"node_modules">>},
      {<<".git">>, <<"a.txt">>, <<"src">>, <<"src", "a">>,
       <<"src", "a", "lib">>, <<"src", "a", "lib", "c.js">>,
       <<"old">>, <<"old", "file.txt">>},
      {<<".git">>, <<"a.txt">>, <<"constructor">>} }

TemplateTrees == { {f \in t : Len(f) <= MaxDepth} : t \in RawTrees }

\* directory trees the generator may leave in the project directory
BaselineTrees ==
    { {<<"src">>, <<"src", "index.js">>},
      {<<"src">>, <<"src", "index.js">>, <<"old">>, <<"old", "file.txt">>} }

\* package.json documents: a plain object from field to value
Obj1(k, v) == (k :> v)
Obj2(k1, v1, k2, v2) == (k1 :> v1) @@ (k2 :> v2)
Obj3(k1, v1, k2, v2, k3, v3) == (k1 :> v1) @@ (k2 :> v2) @@ (k3 :> v3)

Manifest(json) == [state |-> "ok", json |-> json]
NoManifest == [state |-> "missing", json |-> EmptyObject]
BadManifest == [state |-> "invalid", json |-> EmptyObject]

TemplateManifests ==
    { NoManifest, BadManifest,
      Manifest(Obj3("name", "template",
                    "dependencies", Obj1("lodash", "^4.0.0"),
                    "scripts", Obj1("build", "custom-build"))
               @@ Obj1("eslintConfig", "template-eslint")),
      Manifest(Obj3("name", "template",
                    "dependencies", Obj3("react", "^15.0.0", "lodash", "^4.0.0",
                                         "web-vitals", "^1.0.0"),
                    "homepage", "template-home")),
      Manifest(Obj1("scripts", Obj2("lint", "eslint", "test", "jest"))) }

BaselineManifests ==
    { NoManifest, BadManifest,
      Manifest(Obj3("name", "my-app",
                    "dependencies", Obj3("react", "^16.0.0", "react-dom", "^16.0.0",
                                         "react-scripts", "3.0.0"),
                    "scripts", Obj2("build", "react-scripts build",
                                    "test", "react-scripts test"))
               @@ Obj1("eslintConfig", "react-app")),
      Manifest(Obj2("name", "my-app",
                    "dependencies", Obj3("react", "^16.0.0", "react-scripts", "3.0.0",
                                         "web-vitals", "^2.0.0"))) }

----------------------------------------------------------------------------
(* Messages and rejection reasons *)

Banner == [msg |-> "Template applied successfully!", command |-> <<>>]
Aborting == [msg |-> "Aborting installation.", command |-> <<>>]
HasFailed(command) == [msg |-> "has failed.", command |-> command]
Unexpected == [msg |-> "Unexpected error. Please report it as a bug:", command |-> <<>>]

NoReason == [command |-> <<>>, error |-> "none"]
CommandFailed(command) == [command |-> command, error |-> "none"]
Thrown(error) == [command |-> <<>>, error |-> error]

NoInstall == [state |-> "none", args |-> {}]

----------------------------------------------------------------------------
(* Initial state: the command line has been parsed *)

Init ==
    /\ variant \in {"yaml", "legacy"}
    /\ sep \in Separators
    /\ pc = "start"
    /\ npx = FALSE
    /\ craInstalled \in BOOLEAN
    /\ obj = [tmpdir |-> FALSE, hasSpec |-> FALSE, spec |-> EmptyObject,
              cleanupCalled |-> FALSE, removed |-> FALSE]
    /\ tmplConfig = NoConfig
    /\ configLog = "none"
    /\ tmplFiles = {}
    /\ tmplManifest = NoManifest
    /\ appFiles = {}
    /\ appManifest = NoManifest
    /\ delPending = {}
    /\ delResult = EmptyObject
    /\ copyPending = {}
    /\ copyResult = EmptyObject
    /\ copied = {}
    /\ templatePackageJson = EmptyObject
    /\ appPackageJson = EmptyObject
    /\ install = NoInstall
    /\ written = NoManifest
    /\ reason = NoReason
    /\ printed = {}
    /\ procs = <<>>
    /\ cursor = 0

----------------------------------------------------------------------------
(* Prerequisites and generator *)

\* a subprocess that has not closed yet has no exit code
Running == -1

\* child_process.spawn(command, args, { stdio: 'inherit' })
Spawn(ps, command) == Append(ps, [command |-> command, code |-> Running])

\* child.on('close', code => ...) of the subprocess spawned last
Close(ps, code) == [ps EXCEPT ![Len(ps)].code = code]

createAppCommandDirect(name, useNpx) == <<"create-react-app", name>>

\* the command line createApp spawns
createAppCommand(name, useNpx) ==
    IF useNpx THEN <<"npx", "create-react-app", name>>
    ELSE <<"create-react-app", name>>

missingPrerequisitesInverted(available, cra) == ~available /\ cra

\* if (!npx && !isCRAInstalled())
missingPrerequisites(available, cra) == ~available /\ ~cra

\* const npx = isNPXAvailable(); if (!npx && !isCRAInstalled()) process.exit(1)
\* otherwise createApp spawns the generator
CheckPrerequisites ==
    /\ pc = "start"
    /\ \E available \in BOOLEAN :
          /\ npx' = available
          /\ IF missingPrerequisites(available, craInstalled)
             THEN /\ pc' = "exit1"
                  /\ UNCHANGED procs
             ELSE /\ pc' = "createApp"
                  /\ procs' = Spawn(procs, createAppCommand(projectName, available))
    /\ UNCHANGED <<variant, cursor, sep, craInstalled, obj, tmplConfig, configLog,
                   tmplFiles, tmplManifest, appFiles, appManifest, delPending,
                   delResult, copyPending, copyResult, copied, templatePackageJson, appPackageJson,
                   install, written,
                   reason, printed>>

\* createApp: child.on('close', code => ...); on success the first then
\* callback asks for the temporary directory
CreateAppClose ==
    /\ pc = "createApp"
    /\ \E code \in 0..MaxExitCode :
        /\ procs' = Close(procs, code)
        /\ IF code # 0
          THEN /\ reason' = CommandFailed(createAppCommand(projectName, npx))
               /\ pc' = "catch"
               /\ UNCHANGED <<appFiles, appManifest>>
          ELSE /\ \E tree \in BaselineTrees, m \in BaselineManifests :
                     /\ appManifest' = m
                     /\ appFiles' = tree \cup
                            (IF m.state = "missing" THEN {} ELSE {<<"package.json">>})
               /\ pc' = "tmpdir"
               /\ UNCHANGED reason
    /\ UNCHANGED <<variant, cursor, sep, npx, craInstalled, obj, tmplConfig, configLog,
                   tmplFiles, tmplManifest, delPending, delResult, copyPending,
                   copyResult, copied, templatePackageJson, appPackageJson,
                   install, written, printed>>

\* the command line of the clone step
cloneCommand == <<"git", "clone", projectTemplate, tmpdirName>>

\* getTemporaryDirectory: the callback of tmp.dir; on success git is spawned
GetTemporaryDirectory ==
    /\ pc = "tmpdir"
    /\ \E err \in BOOLEAN :
          IF err
          THEN /\ reason' = Thrown("tmp.dir")
               /\ pc' = "catch"
               /\ UNCHANGED <<obj, procs>>
          ELSE /\ obj' = [obj EXCEPT !.tmpdir = TRUE]
               /\ pc' = "clone"
               /\ procs' = Spawn(procs, cloneCommand)
               /\ UNCHANGED reason
    /\ UNCHANGED <<variant, cursor, sep, npx, craInstalled, tmplConfig, configLog,
                   tmplFiles, tmplManifest, appFiles, appManifest, delPending,
                   delResult, copyPending, copyResult, copied, templatePackageJson, appPackageJson,
                   install, written,
                   printed>>

----------------------------------------------------------------------------
(* Clone and configuration *)

\* Object.assign(obj, readConfig(obj.tmpdir)) / obj.spec = readSpec(obj.tmpdir)
AssignConfig(o, v, files, cfg, s) ==
    LET r == IF v = "yaml" THEN readConfig(files, cfg, s) ELSE readSpec(files, cfg, s)
    IN IF r.hasSpec THEN [o EXCEPT !.hasSpec = TRUE, !.spec = r.spec] ELSE o

ConfigLogOf(v, files, cfg, s) ==
    IF v = "yaml" THEN readConfig(files, cfg, s).log ELSE readSpec(files, cfg, s).log

\* the close handler of git clone: reject (without return) on a non-zero
\* code, then read the configuration and resolve
CloneClose ==
    /\ pc = "clone"
    /\ \E code \in 0..MaxExitCode :
        /\ procs' = Close(procs, code)
        /\ IF code # 0
          THEN /\ reason' = CommandFailed(cloneCommand)
               /\ pc' = "catch"
               /\ obj' = AssignConfig(obj, variant, {}, NoConfig, sep)
               /\ UNCHANGED <<tmplFiles, tmplManifest, tmplConfig, configLog>>
          ELSE /\ \E tree \in TemplateTrees, m \in TemplateManifests,
                     names \in SUBSET ConfigNames(variant) :
                     /\ tmplFiles' = tree \cup names \cup
                            (IF m.state = "missing" THEN {} ELSE {<<"package.json">>})
                     /\ tmplManifest' = m
                     /\ \E doc \in (IF names = {} THEN {NoConfig}
                                     ELSE ConfigDocs(variant)) :
                            tmplConfig' = doc
               /\ obj' = AssignConfig(obj, variant, tmplFiles', tmplConfig', sep)
               /\ configLog' = ConfigLogOf(variant, tmplFiles', tmplConfig', sep)
               /\ pc' = "delete"
               /\ UNCHANGED reason
    /\ UNCHANGED <<variant, cursor, sep, npx, craInstalled, appFiles, appManifest,
                   delPending, delResult, copyPending, copyResult, copied,
                   templatePackageJson, appPackageJson, install, written, printed>>

----------------------------------------------------------------------------
(* Deletion step *)

\* a separator of path.join on the host
IsSep(tok, s) == tok = s \/ (s = "\\" /\ tok = "/")

\* the names of path.join(root, file) below root
Names(file, s) == SelectSeq(file, LAMBDA tok : ~IsSep(tok, s))

\* Object.keys(obj.spec).filter(file => obj.spec[file] === 'delete')
DeleteFiles(spec) == {file \in DOMAIN spec : spec[file] = "delete"}

\* the callback of fs.remove settles the promise of that file
removeCallbackRejects(err) == IF err THEN "reject" ELSE "resolve"

removeCallback(err) == "resolve"

PromiseAny(pending) == TRUE

\* return Promise.all(promises): settles when every promise has settled
\* (no callback of the file operations rejects)
PromiseAll(pending) == pending = {}

\* the then callback of the deletion step: one fs.remove per file
DeleteStep ==
    /\ pc = "delete"
    /\ IF ~obj.hasSpec
       THEN /\ reason' = Thrown("TypeError: Object.keys(undefined)")
            /\ pc' = "catch"
            /\ UNCHANGED delPending
       ELSE /\ delPending' = DeleteFiles(obj.spec)
            /\ pc' = "deleting"
            /\ UNCHANGED reason
    /\ UNCHANGED <<variant, cursor, procs, sep, npx, craInstalled, obj, tmplConfig, configLog,
                   tmplFiles, tmplManifest, appFiles, appManifest, delResult,
                   copyPending, copyResult, copied, templatePackageJson,
                   appPackageJson, install, written, printed>>

\* what is below a file of the tree, the file included
Subtree(files, names) == {g \in files : IsUnder(g, names)}

\* one fs.remove completes
RemoveSettle ==
    /\ pc = "deleting"
    /\ \E file \in delPending, err \in BOOLEAN :
          LET target == Names(file, sep)
          IN /\ IF err
                THEN \E gone \in SUBSET (Subtree(appFiles, target) \ {target}) :
                        /\ \A g \in gone : Subtree(appFiles, g) \subseteq gone
                        /\ appFiles' = appFiles \ gone
                ELSE appFiles' = appFiles \ Subtree(appFiles, target)
             /\ appManifest' = IF <<"package.json">> \in appFiles'
                               THEN appManifest ELSE NoManifest
             /\ delResult' = Put(delResult, file, IF err THEN "err" ELSE "ok")
             /\ delPending' = delPending \ {file}
             /\ IF removeCallback(err) = "reject"
                THEN /\ reason' = Thrown("fs.remove")
                     /\ pc' = "catch"
                ELSE UNCHANGED <<reason, pc>>
    /\ UNCHANGED <<variant, cursor, procs, sep, npx, craInstalled, obj, tmplConfig, configLog,
                   tmplFiles, tmplManifest, copyPending, copyResult, copied,
                   templatePackageJson, appPackageJson, install, written, printed>>

\* Promise.all(promises).then(() => obj)
DeleteDone ==
    /\ pc = "deleting"
    /\ PromiseAll(delPending)
    /\ pc' = "copy"
    /\ UNCHANGED <<variant, cursor, procs, sep, npx, craInstalled, obj, tmplConfig, configLog,
                   tmplFiles, tmplManifest, appFiles, appManifest, delPending,
                   delResult, copyPending, copyResult, copied, templatePackageJson,
                   appPackageJson, install, written, reason, printed>>

----------------------------------------------------------------------------
(* Copy step *)

readdirRecursive(files) == files

\* fs.readdirSync(obj.tmpdir)
readdirSync(files) == {f \in files : Len(f) = 1}

\* const skip = file => { directive = obj.spec[file];
\*                        return directive && directive !== 'replace' }
skip(spec, file) ==
    LET directive == Get(spec, file)
    IN directive # Undefined /\ directive # "replace"

\* const filter = (src, dest) => !skip(src.substring(prefixLength))
filterNothing(spec, names, s) == TRUE

filter(spec, names, s) == ~skip(spec, RelPath(names, s))

\* the entries the loop launches a copy for
CopyFiles(spec, files) == {f \in readdirSync(files) : ~skip(spec, f)}

\* fs.copy(src, dest, { filter }): the filter is asked for src and for every
\* entry met while walking down; a refused directory is not walked
CopySelection(spec, files, top, s) ==
    {g \in Subtree(files, top) :
        \A n \in 1..Len(g) : filter(spec, SubSeq(g, 1, n), s)}

\* what a copy that fails may have written: directories before their content
PartOf(selection) ==
    {done \in SUBSET selection :
        \A g \in done : (Ancestors(g) \cap selection) \subseteq done}

\* the callback of fs.copy settles the promise of that entry
copyCallback(err) == "resolve"

\* the then callback of the copy step: one fs.copy per entry not skipped
CopyStep ==
    /\ pc = "copy"
    /\ copyPending' = CopyFiles(obj.spec, tmplFiles)
    /\ pc' = "copying"
    /\ UNCHANGED <<variant, cursor, procs, sep, npx, craInstalled, obj, tmplConfig, configLog,
                   tmplFiles, tmplManifest, appFiles, appManifest, delPending,
                   delResult, copyResult, copied, templatePackageJson,
                   appPackageJson, install, written, reason, printed>>

\* one fs.copy completes; a failed copy may have written part of its files
CopySettle ==
    /\ pc = "copying"
    /\ \E file \in copyPending, err \in BOOLEAN :
          LET selection == CopySelection(obj.spec, tmplFiles, file, sep)
          IN /\ \E done \in (IF err THEN PartOf(selection) ELSE {selection}) :
                    /\ copied' = copied \cup done
                    /\ appFiles' = appFiles \cup done
                    /\ appManifest' = IF <<"package.json">> \in done
                                      THEN tmplManifest ELSE appManifest
             /\ copyResult' = Put(copyResult, file, IF err THEN "err" ELSE "ok")
             /\ copyPending' = copyPending \ {file}
             /\ IF copyCallback(err) = "reject"
                THEN /\ reason' = Thrown("fs.copy")
                     /\ pc' = "catch"
                ELSE UNCHANGED <<reason, pc>>
    /\ UNCHANGED <<variant, cursor, procs, sep, npx, craInstalled, obj, tmplConfig, configLog,
                   tmplFiles, tmplManifest, delPending, delResult,
                   templatePackageJson, appPackageJson, install, written, printed>>

\* Promise.all(promises).then(() => obj)
CopyDone ==
    /\ pc = "copying"
    /\ PromiseAll(copyPending)
    /\ pc' = "manifest"
    /\ UNCHANGED <<variant, cursor, procs, sep, npx, craInstalled, obj, tmplConfig, configLog,
                   tmplFiles, tmplManifest, appFiles, appManifest, delPending,
                   delResult, copyPending, copyResult, copied, templatePackageJson,
                   appPackageJson, install, written, reason, printed>>

----------------------------------------------------------------------------
(* Manifest step *)

\* o[field] || {}
FieldOrEmpty(o, field) == IF field \in DOMAIN o THEN o[field] ELSE EmptyObject

\* const installedDependencies = ['react', 'react-dom', 'react-scripts']
installedDependencies == {"react", "react-dom", "react-scripts"}

\* the dependency names deleted from templateDependencies
ExcludedDependencies(v, appJson) ==
    IF v = "yaml" THEN DOMAIN FieldOrEmpty(appJson, "dependencies")
    ELSE installedDependencies

\* templateDependencies once the excluded names are deleted
templateDependencies(v, tmplJson, appJson) ==
    LET deps == FieldOrEmpty(tmplJson, "dependencies")
    IN [k \in (DOMAIN deps) \ ExcludedDependencies(v, appJson) |-> deps[k]]

\* templatePackageJson after the deletes: dependencies is the same object
AfterDeletes(v, tmplJson, appJson) ==
    IF "dependencies" \in DOMAIN tmplJson
    THEN Put(tmplJson, "dependencies", templateDependencies(v, tmplJson, appJson))
    ELSE tmplJson

\* Object.keys(dependencies).map(key => `${key}@${dependencies[key]}`)
installArgs(dependencies) == {<<k, "@", dependencies[k]>> : k \in DOMAIN dependencies}

\* const command = 'npm'; the fixed arguments of install(); the dependency
\* arguments are install.args
installCommand == <<"npm", "install", "--save", "--loglevel", "error">>

\* the manifest step up to the spawn of npm install
ManifestStep ==
    /\ pc = "manifest"
    /\ IF Get(obj.spec, <<"package.json">>) # "merge"
       THEN /\ pc' = "success"
            /\ UNCHANGED <<templatePackageJson, appPackageJson, install, reason, procs>>
       ELSE IF tmplManifest.state # "ok"
       THEN /\ pc' = "success"
            /\ UNCHANGED <<templatePackageJson, appPackageJson, install, reason, procs>>
       ELSE IF variant = "yaml" /\ appManifest.state # "ok"
       THEN /\ reason' = Thrown("fs.readJsonSync")
            /\ pc' = "catch"
            /\ templatePackageJson' = tmplManifest.json
            /\ UNCHANGED <<appPackageJson, install, procs>>
       ELSE /\ templatePackageJson' =
                  AfterDeletes(variant, tmplManifest.json, appManifest.json)
            /\ appPackageJson' = IF variant = "yaml" THEN appManifest.json
                                 ELSE appPackageJson
            /\ install' = [state |-> "running",
                           args |-> installArgs(templateDependencies(
                                       variant, tmplManifest.json, appManifest.json))]
            /\ procs' = Spawn(procs, installCommand)
            /\ pc' = "install"
            /\ UNCHANGED reason
    /\ UNCHANGED <<variant, cursor, sep, npx, craInstalled, obj, tmplConfig, configLog,
                   tmplFiles, tmplManifest, appFiles, appManifest, delPending,
                   delResult, copyPending, copyResult, copied, written, printed>>

\* what npm install --save leaves in package.json of the project; without a
\* package.json some npm versions create one, others only warn
NpmSave(manifest, dependencies) ==
    IF manifest.state = "ok"
    THEN {IF DOMAIN dependencies = {} THEN manifest
          ELSE Manifest(Put(manifest.json, "dependencies",
                   ObjectAssign(FieldOrEmpty(manifest.json, "dependencies"),
                                dependencies)))}
    ELSE IF manifest.state = "missing" /\ DOMAIN dependencies # {}
    THEN {manifest, Manifest(Obj1("dependencies", dependencies))}
    ELSE {manifest}

\* a value that counts as true in a || b
Truthy(value) == value \notin {Undefined, ""}

MergeScriptsNewOnly(tmplJson, appJson) ==
    LET scripts == FieldOrEmpty(tmplJson, "scripts")
    IN [k \in (DOMAIN scripts) \ DOMAIN FieldOrEmpty(appJson, "scripts") |-> scripts[k]]

\* Object.assign({}, appPackageJson.scripts, templatePackageJson.scripts)
MergeScripts(tmplJson, appJson) ==
    ObjectAssign(FieldOrEmpty(appJson, "scripts"), FieldOrEmpty(tmplJson, "scripts"))

\* templatePackageJson.eslintConfig || appPackageJson.eslintConfig
MergeEslintConfig(tmplJson, appJson) ==
    IF Truthy(GetOwn(tmplJson, "eslintConfig"))
    THEN GetOwn(tmplJson, "eslintConfig")
    ELSE GetOwn(appJson, "eslintConfig")

\* Object.assign({}, templatePackageJson, appPackageJson, { scripts, eslintConfig })
\* (the legacy variant forces scripts only) as JSON.stringify writes it: a
\* property whose value is undefined is left out
MergeManifestTemplateWins(v, tmplJson, appJson) ==
    LET eslintConfig == MergeEslintConfig(tmplJson, appJson)
        packageJson == Put(ObjectAssign(appJson, tmplJson),
                           "scripts", MergeScripts(tmplJson, appJson))
    IN IF v # "yaml" THEN packageJson
       ELSE IF eslintConfig = Undefined THEN DeleteKey(packageJson, "eslintConfig")
       ELSE Put(packageJson, "eslintConfig", eslintConfig)

MergeManifest(v, tmplJson, appJson) ==
    LET eslintConfig == MergeEslintConfig(tmplJson, appJson)
        packageJson == Put(ObjectAssign(tmplJson, appJson),
                           "scripts", MergeScripts(tmplJson, appJson))
    IN IF v # "yaml" THEN packageJson
       ELSE IF eslintConfig = Undefined THEN DeleteKey(packageJson, "eslintConfig")
       ELSE Put(packageJson, "eslintConfig", eslintConfig)

\* the close handler of npm install; its reject({command: `${command} ...`})
\* reads a variable that does not exist, so a non-zero code throws a
\* ReferenceError out of the event handler; on code 0 the then callback
\* reloads the baseline manifest, merges and writes
InstallClose ==
    /\ pc = "install"
    /\ \E code \in 0..MaxExitCode :
        /\ procs' = Close(procs, code)
        /\ IF code # 0
          THEN /\ install' = [install EXCEPT !.state = "failed"]
               /\ pc' = "crashed"
               /\ UNCHANGED <<appPackageJson, appManifest, written, reason>>
          ELSE /\ install' = [install EXCEPT !.state = "ok"]
               /\ \E reloaded \in NpmSave(appManifest,
                        FieldOrEmpty(templatePackageJson, "dependencies")) :
                     IF reloaded.state # "ok"
                     THEN /\ reason' = Thrown("require package.json")
                          /\ pc' = "catch"
                          /\ UNCHANGED <<appPackageJson, appManifest, written>>
                     ELSE /\ appPackageJson' = reloaded.json
                          /\ written' = Manifest(MergeManifest(
                                 variant, templatePackageJson, reloaded.json))
                          /\ appManifest' = written'
                          /\ pc' = "success"
                          /\ UNCHANGED reason
    /\ UNCHANGED <<variant, cursor, sep, npx, craInstalled, obj, tmplConfig, configLog,
                   tmplFiles, tmplManifest, appFiles, delPending, delResult,
                   copyPending, copyResult, copied, templatePackageJson, printed>>

----------------------------------------------------------------------------
(* End of the chain *)

cleanupRethrows(threw) == IF threw THEN "throws" ELSE "returns"

\* cleanup: () => { try { callback(); } catch (ignored) { } }
cleanup(threw) == "returns"

\* the last then callback: banner and obj.cleanup(); what the cleanup
\* callback throws is ignored
SuccessStep ==
    /\ pc = "success"
    /\ printed' = printed \cup {Banner}
    /\ \E threw \in BOOLEAN :
          /\ obj' = [obj EXCEPT !.cleanupCalled = TRUE, !.removed = ~threw]
          /\ IF cleanup(threw) = "throws"
             THEN /\ reason' = Thrown("cleanup")
                  /\ pc' = "catch"
             ELSE /\ pc' = "done"
                  /\ UNCHANGED reason
    /\ UNCHANGED <<variant, cursor, procs, sep, npx, craInstalled, tmplConfig, configLog,
                   tmplFiles, tmplManifest, appFiles, appManifest, delPending,
                   delResult, copyPending, copyResult, copied, templatePackageJson,
                   appPackageJson, install, written>>

\* .catch(reason => ...)
CatchHandler ==
    /\ pc = "catch"
    /\ printed' = printed \cup {Aborting} \cup
          (IF reason.command # <<>> THEN {HasFailed(reason.command)}
           ELSE {Unexpected})
    /\ pc' = "aborted"
    /\ UNCHANGED <<variant, cursor, procs, sep, npx, craInstalled, obj, tmplConfig, configLog,
                   tmplFiles, tmplManifest, appFiles, appManifest, delPending,
                   delResult, copyPending, copyResult, copied, templatePackageJson,
                   appPackageJson, install, written, reason>>

----------------------------------------------------------------------------
(* Specification *)

Next ==
    \/ CheckPrerequisites
    \/ CreateAppClose
    \/ GetTemporaryDirectory
    \/ CloneClose
    \/ DeleteStep
    \/ RemoveSettle
    \/ DeleteDone
    \/ CopyStep
    \/ CopySettle
    \/ CopyDone
    \/ ManifestStep
    \/ InstallClose
    \/ SuccessStep
    \/ CatchHandler

Spec == Init /\ [][Next]_vars

----------------------------------------------------------------------------
(* Vocabulary of the properties *)

\* the clone has succeeded and its close handler has run
PastClone == tmplFiles # {}

\* the template snapshot holds no configuration file of the variant
NoConfigFile == tmplFiles \cap ConfigNames(variant) = {}

\* the configuration file cannot be read, or parsed, or normalized
Unparsable ==
    \/ tmplConfig.io = "error"
    \/ variant = "yaml" /\ tmplConfig.load \in {"throws", "null"}

\* the then callback of the deletion step threw on obj.spec
SpecMissing == reason.error = "TypeError: Object.keys(undefined)"

\* the run is over
Ended == pc \in {"done", "aborted", "crashed", "exit1"}

\* the copy step has launched its copies
CopyLaunched == pc \in {"copying", "manifest", "install", "success", "done"}
                \/ (pc \in {"catch", "aborted", "crashed"} /\ copyResult # EmptyObject)

\* the entries a copy was launched for
Launched == copyPending \cup DOMAIN copyResult

\* the Spec holds a directive other than replace for the path
NonReplace(spec, path) == path \in DOMAIN spec /\ spec[path] # "replace"

----------------------------------------------------------------------------
(* C1 - C10 *)

\* C1: when the template holds no configuration file, the Spec used after
\* the clone is exactly the default mapping and the deletion step does not
\* fail on it.
C1_NoConfigFileGivesDefaults ==
    (PastClone /\ NoConfigFile) =>
        /\ obj.hasSpec
        /\ obj.spec = defaultSpec(variant)
        /\ ~SpecMissing

\* C2: when the configuration file is present but unreadable or unparsable,
\* a warning is printed, the Spec is the default mapping and the deletion
\* step does not fail on it.
C2_UnparsableConfigFallsBack ==
    (PastClone /\ ~NoConfigFile /\ Unparsable) =>
        /\ configLog = "failed"
        /\ obj.hasSpec
        /\ obj.spec = defaultSpec(variant)
        /\ ~SpecMissing

\* C3: after a non-zero exit of the generator, of git clone or of npm
\* install the chain is in its catch handler, which names the failed
\* command, and the banner is never printed.
C3_CommandFailureIsReported ==
    (variant = "yaml" /\ (reason.command # <<>> \/ install.state = "failed")) =>
        /\ pc \in {"catch", "aborted"}
        /\ Banner \notin printed
        /\ pc = "aborted" => \E m \in printed : m.msg = "has failed."

\* C4: once the scratch directory exists, a run that has ended has called
\* its cleanup handle.
C4_CleanupOnEveryEnd ==
    (variant = "yaml" /\ Ended /\ obj.tmpdir) => obj.cleanupCalled

\* C5: a copy is launched for a top-level entry of the template snapshot
\* exactly when the Spec holds no directive for the entry or the directive
\* is replace.
C5_CopiedIffNoDirectiveOrReplace ==
    (variant = "yaml" /\ CopyLaunched) =>
        \A f \in readdirSync(tmplFiles) :
            (f \in Launched) <=> ~NonReplace(obj.spec, f)

\* a file of the template snapshot below a top-level entry whose copy has
\* succeeded
NestedOfCopied(g) ==
    /\ g \in tmplFiles
    /\ Len(g) > 1
    /\ <<g[1]>> \in DOMAIN copyResult
    /\ copyResult[<<g[1]>>] = "ok"

\* C6 as stated: a nested path below a copied top-level entry is left out
\* of the copy exactly when the Spec holds a directive other than replace
\* for that very path.
C6_LeftOutIffOwnDirective ==
    \A g \in tmplFiles :
        NestedOfCopied(g) =>
            ((g \notin copied) <=> NonReplace(obj.spec, RelPath(g, sep)))

\* C6 as amended: a nested path below a copied top-level entry is left out
\* of the copy exactly when the Spec holds a directive other than replace
\* for that path or for one of the directories between the top-level entry
\* and the path.
C6_LeftOutIffDirectiveOnPathOrAncestor ==
    \A g \in tmplFiles :
        NestedOfCopied(g) =>
            ((g \notin copied) <=>
                \E n \in 2..Len(g) : NonReplace(obj.spec, RelPath(SubSeq(g, 1, n), sep)))

\* a nested file without a directive of its own is left out of a copy that
\* succeeded, because its directory carries the directive ignore
C6_Witness ==
    /\ NestedOfCopied(<<"src", "a", "lib">>)
    /\ <<"src", "a", "lib">> \notin copied
    /\ <<"src", "a">> \notin copied
    /\ <<"src">> \in copied
    /\ RelPath(<<"src", "a", "lib">>, sep) \notin DOMAIN obj.spec
    /\ NonReplace(obj.spec, RelPath(<<"src", "a">>, sep))

\* the dependencies field of a manifest, {} when it has none
DependenciesOf(manifest) == FieldOrEmpty(manifest.json, "dependencies")

\* C7: npm install is given no dependency name the baseline manifest holds
\* before the installation, and every other dependency of the template
\* manifest as name@version.
C7_InstallExcludesBaselineDependencies ==
    pc = "install" =>
        /\ \A a \in install.args : a[1] \notin DOMAIN DependenciesOf(appManifest)
        /\ \A k \in (DOMAIN DependenciesOf(tmplManifest))
                        \ (DOMAIN DependenciesOf(appManifest)) :
              <<k, "@", DependenciesOf(tmplManifest)[k]>> \in install.args

\* the manifest step has written the merged package.json
ManifestWritten == variant = "yaml" /\ written.state = "ok"

\* C8: in the written manifest every field other than scripts and
\* eslintConfig has the reloaded baseline value when the baseline has the
\* field and the template value otherwise; scripts are the baseline scripts
\* overlaid by the template scripts; eslintConfig is the template's when
\* the template has one, else the baseline's.
C8_MergedManifestPrecedence ==
    ManifestWritten =>
        LET T == tmplManifest.json
            A == appPackageJson
            W == written.json
            Ts == FieldOrEmpty(T, "scripts")
            As == FieldOrEmpty(A, "scripts")
        IN /\ (DOMAIN W) \ {"scripts", "eslintConfig"} =
                  ((DOMAIN T) \cup (DOMAIN A)) \ {"scripts", "eslintConfig"}
           /\ \A f \in (DOMAIN W) \ {"scripts", "eslintConfig"} :
                  W[f] = IF f \in DOMAIN A THEN A[f] ELSE T[f]
           /\ "scripts" \in DOMAIN W
           /\ DOMAIN W["scripts"] = (DOMAIN Ts) \cup (DOMAIN As)
           /\ \A n \in DOMAIN W["scripts"] :
                  W["scripts"][n] = IF n \in DOMAIN Ts THEN Ts[n] ELSE As[n]
           /\ IF "eslintConfig" \in DOMAIN T
              THEN "eslintConfig" \in DOMAIN W /\ W["eslintConfig"] = T["eslintConfig"]
              ELSE IF "eslintConfig" \in DOMAIN A
              THEN "eslintConfig" \in DOMAIN W /\ W["eslintConfig"] = A["eslintConfig"]
              ELSE "eslintConfig" \notin DOMAIN W

\* a manifest was written where template and baseline disagree on name, on
\* the build script and on eslintConfig, and the baseline alone has test
C8_Witness ==
    /\ ManifestWritten
    /\ tmplManifest.state = "ok"
    /\ {"name", "scripts", "eslintConfig"} \subseteq DOMAIN tmplManifest.json
    /\ {"name", "scripts", "eslintConfig"} \subseteq DOMAIN appPackageJson
    /\ tmplManifest.json["name"] # appPackageJson["name"]
    /\ tmplManifest.json["eslintConfig"] # appPackageJson["eslintConfig"]
    /\ "build" \in DOMAIN tmplManifest.json["scripts"]
    /\ {"build", "test"} \subseteq DOMAIN appPackageJson["scripts"]
    /\ "lodash" \in DOMAIN written.json["dependencies"]

\* the manifest step has gone past its guard on the package.json directive
\* and has read the manifests
ManifestRead ==
    /\ \/ pc \in {"install", "success", "done", "crashed"}
       \/ pc \in {"catch", "aborted"}
            /\ reason.error \in {"fs.readJsonSync", "require package.json"}
    /\ obj.hasSpec
    /\ Get(obj.spec, <<"package.json">>) = "merge"

\* C9: when the template manifest or the baseline manifest is missing or
\* invalid, the manifest step installs nothing, writes nothing and the
\* run goes on to the banner.
C9_BadManifestSkipsReconciliation ==
    (variant = "yaml" /\ ManifestRead
        /\ (tmplManifest.state # "ok" \/ appManifest.state # "ok")) =>
        /\ pc \in {"success", "done"}
        /\ install.state = "none"
        /\ written.state # "ok"

\* C10: a delete or a copy that fails does not reject: the deletion phase
\* ends only by going on to the copy step, with every delete of the phase
\* settled, and the copy phase only by going on to the manifest step, with
\* every copy of the phase settled.
C10_FileFailureDoesNotAbort ==
    [][ /\ pc = "deleting" =>
              /\ pc' \in {"deleting", "copy"}
              /\ pc' = "copy" => DOMAIN delResult' = DeleteFiles(obj.spec)
        /\ pc = "copying" =>
              /\ pc' \in {"copying", "manifest"}
              /\ pc' = "manifest" =>
                    DOMAIN copyResult' = CopyFiles(obj.spec, tmplFiles) ]_vars

\* a run with a failed delete next to a successful one and a failed copy
\* next to a successful one has printed the banner
C10_Witness ==
    /\ pc = "done"
    /\ Banner \in printed
    /\ \E f, g \in DOMAIN delResult : delResult[f] = "err" /\ delResult[g] = "ok"
    /\ \E f, g \in DOMAIN copyResult : copyResult[f] = "err" /\ copyResult[g] = "ok"

----------------------------------------------------------------------------
(* The construction of the Spec, one configuration entry at a time *)

\* what a configuration may hold: directive tokens and path values
ConfigTokens == {"ignore", "delete", "replace", "merge"}

ConfigValues ==
    {V(<<"package.json">>), V(<<"node_modules">>), V(<<"old", "/", "file.txt">>),
     NotScalar}

SeqsUpTo(S, n) == UNION {[1..k -> S] : k \in 0..n}

\* the (directive, value) pairs of a document in the order of the file
Pairs == [directive : ConfigTokens, value : ConfigValues]

\* the keys of a mapping are distinct: the pairs of one directive are
\* contiguous in the flat sequence
Groupable(flat) ==
    \A i, k \in 1..Len(flat) :
        (i < k /\ flat[i].directive = flat[k].directive) =>
            \A j \in i..k : flat[j].directive = flat[i].directive

\* the number of leading pairs with the directive of the first pair
RECURSIVE Run(_, _)
Run(flat, d) ==
    IF Len(flat) = 0 \/ Head(flat).directive # d THEN 0
    ELSE 1 + Run(Tail(flat), d)

\* config.spec of the flat sequence: one key per directive, with its values
RECURSIVE Group(_)
Group(flat) ==
    IF Len(flat) = 0 THEN <<>>
    ELSE LET n == Run(flat, Head(flat).directive)
         IN <<E(Head(flat).directive, [i \in 1..n |-> flat[i].value])>>
            \o Group(SubSeq(flat, n + 1, Len(flat)))

\* the documents handed to normalizeConfig
NormalizeDocs ==
    {YamlDoc("object", TRUE, Group(flat)) :
        flat \in {f \in SeqsUpTo(Pairs, MaxEntries) : Groupable(f)}}
    \cup {YamlDoc("null", FALSE, <<>>), YamlDoc("undefined", FALSE, <<>>),
          YamlDoc("object", FALSE, <<>>)}

\* the lines of a craft.spec
SpecFileLines ==
    {p \o <<":", " ", d>> :
        p \in {<<"package.json">>, <<"node_modules">>, <<"old", "/", "file.txt">>},
        d \in ConfigTokens}
    \cup { <<>>, <<"no colon">>,
           <<"#", " ", "package.json", ":", " ", "delete">>,
           <<"package.json", ":", "replace">>,
           <<"package.json", ":", " ", "delete", " ">>,
           <<"node_modules", " ", ":", "\t", "delete">> }

ReadSpecDocs == {LegacyDoc(lines) : lines \in SeqsUpTo(SpecFileLines, MaxEntries)}

\* the entries the forEach goes over: the keys of config.spec, or the lines
EntriesOf(v, cfg) ==
    IF v = "legacy" THEN cfg.lines
    ELSE IF cfg.load = "object" /\ cfg.hasSpec THEN cfg.entries
    ELSE <<>>

\* normalizeConfig / readSpec entered with a document:
\* const spec = Object.assign({}, defaultSpec)
NormalizeInit ==
    /\ variant \in {"yaml", "legacy"}
    /\ sep \in Separators
    /\ pc = "normalize"
    /\ tmplConfig \in (IF variant = "yaml" THEN NormalizeDocs ELSE ReadSpecDocs)
    /\ obj = [tmpdir |-> TRUE, hasSpec |-> TRUE, spec |-> defaultSpec(variant),
              cleanupCalled |-> FALSE, removed |-> FALSE]
    /\ cursor = 0
    /\ npx = FALSE
    /\ craInstalled = FALSE
    /\ configLog = "none"
    /\ tmplFiles = {}
    /\ tmplManifest = NoManifest
    /\ appFiles = {}
    /\ appManifest = NoManifest
    /\ delPending = {}
    /\ delResult = EmptyObject
    /\ copyPending = {}
    /\ copyResult = EmptyObject
    /\ copied = {}
    /\ templatePackageJson = EmptyObject
    /\ appPackageJson = EmptyObject
    /\ install = NoInstall
    /\ written = NoManifest
    /\ reason = NoReason
    /\ printed = {}
    /\ procs = <<>>

\* one turn of Object.keys(config.spec).forEach(directive => ...), or of
\* the forEach over the lines of craft.spec
NormalizeEntry ==
    /\ pc = "normalize"
    /\ ~(variant = "yaml" /\ normalizeConfig(tmplConfig, sep).threw)
    /\ cursor < Len(EntriesOf(variant, tmplConfig))
    /\ LET e == EntriesOf(variant, tmplConfig)[cursor + 1]
       IN obj' = [obj EXCEPT !.spec = IF variant = "yaml"
                                      THEN addEntries(obj.spec, <<e>>, sep)
                                      ELSE specLine(obj.spec, e, sep)]
    /\ cursor' = cursor + 1
    /\ UNCHANGED <<variant, procs, sep, pc, npx, craInstalled, tmplConfig, configLog,
                   tmplFiles, tmplManifest, appFiles, appManifest, delPending,
                   delResult, copyPending, copyResult, copied, templatePackageJson,
                   appPackageJson, install, written, reason, printed>>

\* return { spec } / return spec
NormalizeReturn ==
    /\ pc = "normalize"
    /\ ~(variant = "yaml" /\ normalizeConfig(tmplConfig, sep).threw)
    /\ cursor = Len(EntriesOf(variant, tmplConfig))
    /\ pc' = "normalized"
    /\ UNCHANGED <<variant, cursor, procs, sep, npx, craInstalled, obj, tmplConfig, configLog,
                   tmplFiles, tmplManifest, appFiles, appManifest, delPending,
                   delResult, copyPending, copyResult, copied, templatePackageJson,
                   appPackageJson, install, written, reason, printed>>

\* config.spec of null: a TypeError leaves normalizeConfig
NormalizeThrows ==
    /\ pc = "normalize"
    /\ variant = "yaml" /\ normalizeConfig(tmplConfig, sep).threw
    /\ obj' = [obj EXCEPT !.hasSpec = FALSE, !.spec = EmptyObject]
    /\ reason' = Thrown("TypeError: config.spec")
    /\ pc' = "threw"
    /\ UNCHANGED <<variant, cursor, procs, sep, npx, craInstalled, tmplConfig, configLog,
                   tmplFiles, tmplManifest, appFiles, appManifest, delPending,
                   delResult, copyPending, copyResult, copied, templatePackageJson,
                   appPackageJson, install, written, printed>>

NormalizeNext == NormalizeEntry \/ NormalizeReturn \/ NormalizeThrows

NormalizeSpec == NormalizeInit /\ [][NormalizeNext]_vars

----------------------------------------------------------------------------
(* The reconciliation of the manifests, run again on its own result *)

ScriptNames == {"build", "test", "lint"}

\* a manifest with or without a scripts property
WithScripts(json, command) ==
    {json} \cup {Put(json, "scripts", [k \in names |-> command]) :
                    names \in SUBSET ScriptNames}

ReconcileTemplates ==
    {Manifest(json) :
        json \in WithScripts(Obj2("name", "template",
                                  "dependencies", Obj1("lodash", "^4.0.0")),
                             "custom-scripts")}

ReconcileBaselines ==
    {Manifest(json) :
        json \in WithScripts(Obj2("name", "my-app",
                                  "dependencies", Obj1("react", "^16.0.0")),
                             "react-scripts")}

\* the manifest step entered with the directive merge for package.json and
\* two manifests that can be read
ReconcileInit ==
    /\ variant \in {"yaml", "legacy"}
    /\ sep \in Separators
    /\ pc = "reconcile"
    /\ tmplManifest \in ReconcileTemplates
    /\ appManifest \in ReconcileBaselines
    /\ obj = [tmpdir |-> TRUE, hasSpec |-> TRUE, spec |-> defaultSpec(variant),
              cleanupCalled |-> FALSE, removed |-> FALSE]
    /\ cursor = 0
    /\ npx = FALSE
    /\ craInstalled = FALSE
    /\ tmplConfig = NoConfig
    /\ configLog = "none"
    /\ tmplFiles = {<<"package.json">>}
    /\ appFiles = {<<"package.json">>}
    /\ delPending = {}
    /\ delResult = EmptyObject
    /\ copyPending = {}
    /\ copyResult = EmptyObject
    /\ copied = {}
    /\ templatePackageJson = EmptyObject
    /\ appPackageJson = EmptyObject
    /\ install = NoInstall
    /\ written = NoManifest
    /\ reason = NoReason
    /\ printed = {}
    /\ procs = <<>>

\* one reconciliation: the manifest step with an install that exits with 0,
\* from the read of the two manifests to fs.writeFileSync
Reconcile ==
    /\ pc = "reconcile"
    /\ cursor < MaxRuns
    /\ Get(obj.spec, <<"package.json">>) = "merge"
    /\ tmplManifest.state = "ok" /\ appManifest.state = "ok"
    /\ templatePackageJson' = AfterDeletes(variant, tmplManifest.json, appManifest.json)
    /\ install' = [state |-> "ok",
                   args |-> installArgs(templateDependencies(
                               variant, tmplManifest.json, appManifest.json))]
    /\ \E reloaded \in NpmSave(appManifest,
                          FieldOrEmpty(templatePackageJson', "dependencies")) :
          /\ reloaded.state = "ok"
          /\ appPackageJson' = reloaded.json
          /\ written' = Manifest(MergeManifest(variant, templatePackageJson',
                                               reloaded.json))
    /\ appManifest' = written'
    /\ cursor' = cursor + 1
    /\ UNCHANGED <<variant, procs, sep, pc, npx, craInstalled, obj, tmplConfig, configLog,
                   tmplFiles, tmplManifest, appFiles, delPending, delResult,
                   copyPending, copyResult, copied, reason, printed>>

ReconcileNext == Reconcile

ReconcileSpec == ReconcileInit /\ [][ReconcileNext]_vars

----------------------------------------------------------------------------
(* C11 - C13 *)

\* the directive tokens the configuration formats define
Recognized == {"ignore", "delete", "replace"}

\* whether the entry carries a directive token, and the token: the key of
\* config.spec, or what follows the first colon and its blanks on a line
\* that is not a comment
HasToken(v, e) ==
    v = "yaml" \/ (~(Len(e) > 0 /\ e[1] = "#") /\ MatchLine(e).matched)

Token(v, e) == IF v = "yaml" THEN <<e.directive>> ELSE MatchLine(e).directive

Unrecognized(v, e) ==
    HasToken(v, e) /\ Token(v, e) \notin {<<d>> : d \in Recognized}

\* the (path, directive) pairs an entry supplies and the code accepts, the
\* path separator-normalized
AcceptedOf(v, e, s) ==
    IF ~HasToken(v, e) \/ Unrecognized(v, e) THEN <<>>
    ELSE IF v = "legacy"
    THEN <<[path |-> ReplaceSlashes(MatchLine(e).filePath, s),
            directive |-> Token(v, e)[1]]>>
    ELSE LET scalars == SelectSeq(e.values, LAMBDA val : val.scalar)
         IN [i \in 1..Len(scalars) |->
                [path |-> ReplaceSlashes(scalars[i].path, s),
                 directive |-> e.directive]]

\* the separator-normalized paths an entry names
PathsOf(v, e, s) ==
    IF v = "legacy" THEN {ReplaceSlashes(MatchLine(e).filePath, s)}
    ELSE {ReplaceSlashes(e.values[i].path, s) : i \in 1..Len(e.values)}

RECURSIVE Accepted(_, _, _)
Accepted(v, entries, s) ==
    IF Len(entries) = 0 THEN <<>>
    ELSE AcceptedOf(v, Head(entries), s) \o Accepted(v, Tail(entries), s)

\* the directive the accepted pairs give to a path: the last one supplied
Configured(acc, path) ==
    LET idx == {i \in 1..Len(acc) : acc[i].path = path}
    IN IF idx = {} THEN Undefined
       ELSE acc[CHOOSE i \in idx : \A j \in idx : j <= i].directive

\* C11: for every configuration of either format, every path of the default
\* mapping keeps its default directive in the Spec under construction and in
\* the Spec returned, unless the configuration (so far) supplies an accepted
\* entry for exactly that separator-normalized path; then the Spec holds the
\* directive configured (last) for it.  The Spec returned is the one
\* normalizeConfig / readSpec computes for the document.
C11_DefaultsKeptUnlessConfigured ==
    pc \in {"normalize", "normalized"} =>
        LET acc == Accepted(variant,
                       SubSeq(EntriesOf(variant, tmplConfig), 1, cursor), sep)
        IN /\ \A path \in DOMAIN defaultSpec(variant) :
                 /\ path \in DOMAIN obj.spec
                 /\ obj.spec[path] =
                        IF Configured(acc, path) = Undefined
                        THEN defaultSpec(variant)[path]
                        ELSE Configured(acc, path)
           /\ pc = "normalized" =>
                 obj.spec = IF variant = "yaml"
                            THEN normalizeConfig(tmplConfig, sep).spec
                            ELSE readSpec({<<"craft.spec">>}, tmplConfig, sep).spec

C11_Witness ==
    /\ pc = "normalized"
    /\ cursor >= 2
    /\ obj.spec[<<"package.json">>] = "delete"
    /\ obj.spec[<<"node_modules">>] = "ignore"
    /\ \E i \in 1..cursor :
          Unrecognized(variant, EntriesOf(variant, tmplConfig)[i])

\* C12: processing a configuration entry whose directive token is not one
\* of ignore, delete, replace (the token merge included) leaves the Spec
\* under construction as it was: no path is added, removed or changed.
C12_UnrecognizedLeavesSpec ==
    [][(/\ pc = "normalize"
        /\ cursor' = cursor + 1
        /\ Unrecognized(variant, EntriesOf(variant, tmplConfig)[cursor + 1]))
       => obj'.spec = obj.spec]_vars

C12_Witness ==
    /\ pc = "normalize"
    /\ cursor >= 2
    /\ Token(variant, EntriesOf(variant, tmplConfig)[cursor]) = <<"merge">>
    /\ Unrecognized(variant, EntriesOf(variant, tmplConfig)[cursor])
    /\ <<"old", sep, "file.txt">> \in DOMAIN obj.spec
    /\ <<"old", sep, "file.txt">> \in
           PathsOf(variant, EntriesOf(variant, tmplConfig)[cursor], sep)

\* C13: reconciling the result of a reconciliation again with the same,
\* unchanged template manifest writes the same scripts mapping as the first
\* reconciliation, whatever scripts the baseline and the template hold.
C13_ScriptsMergeIdempotent ==
    [][(/\ pc = "reconcile"
        /\ cursor >= 1
        /\ cursor' = cursor + 1
        /\ tmplManifest' = tmplManifest)
       => written'.json["scripts"] = written.json["scripts"]]_vars

C13_Witness ==
    /\ pc = "reconcile"
    /\ cursor = 2
    /\ "scripts" \in DOMAIN tmplManifest.json
    /\ \E k \in DOMAIN written.json["scripts"] :
          k \notin DOMAIN tmplManifest.json["scripts"]
    /\ \E k \in DOMAIN tmplManifest.json["scripts"] :
          written.json["scripts"][k] = tmplManifest.json["scripts"][k]

----------------------------------------------------------------------------
(* C14 - C19 *)

\* the deletes the deletion step has launched
Deletes == delPending \cup DOMAIN delResult

\* two paths below root are the same or one lies inside the other
Overlap(f, g) == IsUnder(f, g) \/ IsUnder(g, f)

\* the paths with the directive delete whose removal did not fail
Removed == {file \in DOMAIN delResult : delResult[file] = "ok"}

\* C14: when neither npx nor the create-react-app executable is usable the
\* process exits with status 1 and nothing has been spawned, created,
\* deleted or copied: the target directory and the scratch directory do not
\* exist.
C14_ExitBeforeAnything ==
    (pc # "start" /\ ~npx /\ ~craInstalled) =>
        /\ pc = "exit1"
        /\ procs = <<>>
        /\ appFiles = {} /\ appManifest = NoManifest
        /\ ~obj.tmpdir /\ tmplFiles = {}
        /\ Deletes = {} /\ Launched = {} /\ copied = {}
        /\ install = NoInstall /\ written = NoManifest

C14_Witness == pc = "exit1" /\ ~npx /\ ~craInstalled

\* C15: the success banner is printed only when nothing was rejected or
\* thrown along the chain and every subprocess that ran (generator, clone,
\* install when run) exited with status 0; the banner and the abort message
\* are never both printed.
C15_BannerOnlyAfterCleanChain ==
    Banner \in printed =>
        /\ reason = NoReason
        /\ Len(procs) >= 2
        /\ \A i \in 1..Len(procs) : procs[i].code = 0
        /\ install.state \in {"none", "ok"}
        /\ Aborting \notin printed

C15_Witness ==
    /\ Banner \in printed
    /\ Len(procs) = 3
    /\ obj.cleanupCalled /\ ~obj.removed

\* C16 as stated: the generator runs through npx only when the
\* create-react-app executable is not installed, and runs directly when the
\* executable is installed.
C16_NpxOnlyWithoutExecutable ==
    Len(procs) >= 1 =>
        /\ procs[1].command[1] = "npx" => ~craInstalled
        /\ craInstalled => procs[1].command = <<"create-react-app", projectName>>

\* C16 amended: the generator runs through npx whenever npx is available,
\* whether or not the create-react-app executable is installed; it runs
\* directly as create-react-app <name> only when npx is not available, and
\* then the executable is installed.
C16_NpxWheneverAvailable ==
    Len(procs) >= 1 =>
        /\ npx => procs[1].command = <<"npx", "create-react-app", projectName>>
        /\ ~npx => /\ procs[1].command = <<"create-react-app", projectName>>
                   /\ craInstalled

C16_Witness ==
    /\ Len(procs) >= 1
    /\ npx /\ craInstalled
    /\ procs[1].command = <<"npx", "create-react-app", projectName>>

\* C17: the phases run in the order generator, clone, deletion, copy,
\* install: git is spawned only after the generator has closed, no delete
\* is started before git has closed, no copy is started before every delete
\* has settled, and npm is spawned only after every copy has settled.
C17_PhasesInOrder ==
    /\ Len(procs) >= 2 =>
           /\ procs[1].command = createAppCommand(projectName, npx)
           /\ procs[1].code # Running
           /\ procs[2].command = cloneCommand
    /\ (Deletes # {} \/ pc \in {"deleting", "copy"}) =>
           Len(procs) >= 2 /\ procs[2].code # Running
    /\ (Launched # {} \/ pc = "copying") =>
           Len(procs) >= 2 /\ procs[2].code # Running /\ delPending = {}
    /\ Len(procs) >= 3 =>
           /\ procs[3].command = installCommand
           /\ procs[2].code # Running
           /\ delPending = {} /\ copyPending = {}

C17_Witness ==
    /\ Len(procs) = 3
    /\ \E file \in DOMAIN delResult : TRUE
    /\ Cardinality(DOMAIN copyResult) >= 2

\* C18 as stated: no two deletes of the deletion step and no two copies of
\* the copy step act on targets that are equal or lie inside one another.
C18_NoSharedTargets ==
    variant = "yaml" =>
        /\ \A f, g \in Deletes :
               f # g => ~Overlap(Names(f, sep), Names(g, sep))
        /\ \A f, g \in Launched :
               f # g => ~Overlap(Names(f, sep), Names(g, sep))

\* C18 amended: no two copies of the copy step act on targets that are
\* equal or lie inside one another (the deletes act on different paths of
\* the Spec, whose targets may lie inside one another).
C18_CopiesNeverShareTarget ==
    \A f, g \in Launched : f # g => ~Overlap(Names(f, sep), Names(g, sep))

C18_Witness ==
    /\ Cardinality(copyPending) >= 2
    /\ \E f, g \in Deletes : f # g /\ Overlap(Names(f, sep), Names(g, sep))

\* C19: a path with the directive delete whose removal did not fail is
\* absent from the target project when the deletion step ends, and stays
\* absent during and at the end of the copy step, also when the template
\* snapshot holds that path.
C19_DeletedStaysAbsent ==
    (variant = "yaml" /\ pc \in {"copy", "copying", "manifest"}) =>
        \A file \in Removed : Names(file, sep) \notin appFiles

====
